---- MODULE Spec2Model ----
(***************************************************************************)
(* Model of the piece/grid engine of energy-tetris (src/app.js): the grid, *)
(* the falling piece, collision, locking, line clearing, scoring, the      *)
(* treasure unlock, and the event handlers (keyboard, touch, buttons,      *)
(* animation frame) that drive them.                                       *)
(*                                                                         *)
(* Rows and columns are numbered from 0 as in the source; a TLA+ sequence  *)
(* is indexed from 1, so grid[row + 1][col + 1] is the source's            *)
(* grid[row][col].  The source's empty cell 0 is the string "0" here, so   *)
(* that a cell is always a string (colour tags are strings).               *)
(***************************************************************************)
EXTENDS Integers, Sequences, FiniteSets, TLC

\* ------------------------------------------------------------------ constants

GRID_WIDTH == 10
GRID_HEIGHT == 20
ENERGY_THRESHOLD == 5000
TOUCH_SWIPE_THRESHOLD == 30
TOUCH_TIME_THRESHOLD == 300

\* Object.keys(SHAPES), in insertion order
shapeKeys == <<"I", "O", "T", "S", "Z", "J", "L">>

SHAPES ==
  [k \in {"I", "O", "T", "S", "Z", "J", "L"} |->
     CASE k = "I" -> << <<1, 1, 1, 1>> >>
       [] k = "O" -> << <<1, 1>>, <<1, 1>> >>
       [] k = "T" -> << <<0, 1, 0>>, <<1, 1, 1>> >>
       [] k = "S" -> << <<0, 1, 1>>, <<1, 1, 0>> >>
       [] k = "Z" -> << <<1, 1, 0>>, <<0, 1, 1>> >>
       [] k = "J" -> << <<1, 0, 0>>, <<1, 1, 1>> >>
       [] k = "L" -> << <<0, 0, 1>>, <<1, 1, 1>> >> ]

COLORS ==
  [k \in {"I", "O", "T", "S", "Z", "J", "L"} |->
     CASE k = "I" -> "#1FB8CD"
       [] k = "O" -> "#FFC185"
       [] k = "T" -> "#B4413C"
       [] k = "S" -> "#5D878F"
       [] k = "Z" -> "#DB4545"
       [] k = "J" -> "#D2BA4C"
       [] k = "L" -> "#964325" ]

\* the empty cell: the source's 0
EmptyCell == "0"

ColorTags == {COLORS[k] : k \in DOMAIN COLORS}

\* the alphabet of generateTreasureCode, one character per element
chars ==
  <<"A", "B", "C", "D", "E", "F", "G", "H", "I", "J", "K", "L", "M",
    "N", "O", "P", "Q", "R", "S", "T", "U", "V", "W", "X", "Y", "Z",
    "0", "1", "2", "3", "4", "5", "6", "7", "8", "9">>

\* the result of arithmetic on undefined: [0,100,300,500,800][n] for n > 4
NaN == -1

\* Date.now() - performance.now(): the epoch time of the page's time origin.
\* The frame callback's timestamp counts from the time origin, Date.now()
\* from the epoch.
DateOrigin == 2000000000

\* ------------------------------------------------------------------ bounds

\* commands explored after the initial state
MaxCmds == 2
\* commands explored by the soft-drop specification
MaxDrops == 24
\* columns and rows beyond the board at which collisions are probed
ProbeMargin == 3
\* milliseconds between two animation frames (drawn from 1..MaxFrameGaps
\* multiples of FrameGap)
FrameGap == 600
MaxFrameGaps == 2

\* ------------------------------------------------------------- arithmetic

Add(a, b) == IF a = NaN \/ b = NaN THEN NaN ELSE a + b

Mul(a, b) == IF a = NaN \/ b = NaN THEN NaN ELSE a * b

Abs(a) == IF a < 0 THEN -a ELSE a

Max(a, b) == IF a > b THEN a ELSE b

\* ------------------------------------------------------------------- grid

emptyRow == [c \in 1..GRID_WIDTH |-> EmptyCell]

\* resetGrid: Array(GRID_HEIGHT) of Array(GRID_WIDTH).fill(0)
resetGrid == [r \in 1..GRID_HEIGHT |-> emptyRow]

NoPiece == [shape |-> <<>>, color |-> "", x |-> 0, y |-> 0]

\* the rotation with the outer map over shape instead of shape[0]: as many
\* rows as the shape has rows, a missing row[i] read as empty
rotatedSquare(shape) ==
  [i \in 1..Len(shape) |->
     [j \in 1..Len(shape) |->
        IF i <= Len(shape[1]) THEN shape[Len(shape) + 1 - j][i] ELSE 0]]

\* shape[0].map((_, i) => shape.map(row => row[i]).reverse())
rotated(shape) ==
  [i \in 1..Len(shape[1]) |->
     [j \in 1..Len(shape) |-> shape[Len(shape) + 1 - j][i]]]

\* checkCollision's two nested loops, from (row, col) on, with their early
\* returns
RECURSIVE collisionFrom(_, _, _, _, _, _)
collisionFrom(g, x, y, shape, row, col) ==
  IF row >= Len(shape) THEN FALSE
  ELSE IF col >= Len(shape[row + 1]) THEN collisionFrom(g, x, y, shape, row + 1, 0)
  ELSE IF shape[row + 1][col + 1] # 0
    THEN LET newX == x + col
             newY == y + row
         IN  IF newX < 0 \/ newX >= GRID_WIDTH \/ newY >= GRID_HEIGHT THEN TRUE
             ELSE IF newY >= 0 /\ g[newY + 1][newX + 1] # EmptyCell THEN TRUE
             ELSE collisionFrom(g, x, y, shape, row, col + 1)
    ELSE collisionFrom(g, x, y, shape, row, col + 1)

RECURSIVE collisionFromLeftEdge(_, _, _, _, _, _)
collisionFromLeftEdge(g, x, y, shape, row, col) ==
  IF row >= Len(shape) THEN FALSE
  ELSE IF col >= Len(shape[row + 1]) THEN collisionFromLeftEdge(g, x, y, shape, row + 1, 0)
  ELSE IF shape[row + 1][col + 1] # 0
    THEN LET newX == x + col
             newY == y + row
         IN  IF newX <= 0 \/ newX >= GRID_WIDTH \/ newY >= GRID_HEIGHT THEN TRUE
             ELSE IF newY >= 0 /\ g[newY + 1][newX + 1] # EmptyCell THEN TRUE
             ELSE collisionFromLeftEdge(g, x, y, shape, row, col + 1)
    ELSE collisionFromLeftEdge(g, x, y, shape, row, col + 1)

\* checkCollision with the left wall one column too far right (newX <= 0)
checkCollisionLeftEdge(g, x, y, shape) == collisionFromLeftEdge(g, x, y, shape, 0, 0)

checkCollision(g, x, y, shape) == collisionFrom(g, x, y, shape, 0, 0)

\* lockPiece's two nested loops, from (row, col) on: grid[y][x] = color
\* for every occupied cell of the piece whose row y is >= 0
RECURSIVE writeFrom(_, _, _, _)
writeFrom(g, p, row, col) ==
  IF row >= Len(p.shape) THEN g
  ELSE IF col >= Len(p.shape[row + 1]) THEN writeFrom(g, p, row + 1, 0)
  ELSE IF p.shape[row + 1][col + 1] # 0 /\ p.y + row >= 0
    THEN writeFrom([g EXCEPT ![p.y + row + 1][p.x + col + 1] = p.color], p, row, col + 1)
    ELSE writeFrom(g, p, row, col + 1)

writePiece(g, p) == writeFrom(g, p, 0, 0)

\* grid[row].every(cell => cell !== 0)
rowFull(line) == \A c \in 1..Len(line) : line[c] # EmptyCell

\* grid.splice(row, 1)
splice(g, row) == SubSeq(g, 1, row) \o SubSeq(g, row + 2, Len(g))

\* unshift with a row as long as the board is high
unshiftTall(g) == <<[c \in 1..GRID_HEIGHT |-> EmptyCell]>> \o g

\* grid.unshift(Array(GRID_WIDTH).fill(0))
unshift(g) == <<emptyRow>> \o g

\* clearLines' loop without the row++: after a removal the row that slid
\* into the index is skipped
RECURSIVE clearFromSkip(_, _, _)
clearFromSkip(g, row, n) ==
  IF row < 0 THEN [grid |-> g, linesCleared |-> n]
  ELSE IF rowFull(g[row + 1]) THEN clearFromSkip(unshift(splice(g, row)), row - 1, n + 1)
  ELSE clearFromSkip(g, row - 1, n)

\* clearLines' loop with a break after the first removal
RECURSIVE clearFromOnce(_, _, _)
clearFromOnce(g, row, n) ==
  IF row < 0 THEN [grid |-> g, linesCleared |-> n]
  ELSE IF rowFull(g[row + 1]) THEN [grid |-> unshift(splice(g, row)), linesCleared |-> n + 1]
  ELSE clearFromOnce(g, row - 1, n)

\* clearLines' loop from `row` down to 0, n lines cleared so far; after a
\* removal the same index is examined again (row++ then row--)
RECURSIVE clearFrom(_, _, _)
clearFrom(g, row, n) ==
  IF row < 0 THEN [grid |-> g, linesCleared |-> n]
  ELSE IF rowFull(g[row + 1]) THEN clearFrom(unshift(splice(g, row)), row, n + 1)
  ELSE clearFrom(g, row - 1, n)

\* the same loop, watched: whether some re-examination of an index, right
\* after the removal of the row that was there (`again`), finds a full row
RECURSIVE recheckFrom(_, _, _)
recheckFrom(g, row, again) ==
  IF row < 0 THEN FALSE
  ELSE IF rowFull(g[row + 1])
    THEN again \/ recheckFrom(unshift(splice(g, row)), row, TRUE)
    ELSE recheckFrom(g, row - 1, FALSE)

\* ------------------------------------------------------ the program state

\* The engine's state as one record s: the module-level variables of the
\* source, the animation-frame queue, the treasure code shown in the page,
\* and the locals of the last command that the properties read
\* (linesCleared of clearLines, dropDistance of hardDrop, lockedGrid, the
\* grid as lockPiece's loop left it before clearLines ran, and randomCalls,
\* the number of Math.random() calls the command has made).
\*
\* gameLoop is "null", or the handle of the newest frame request: "pending"
\* while that request waits in the queue, "fired" once it has run or has
\* been cancelled.  Every requestAnimationFrame result is assigned to
\* gameLoop, so the request it names is always the last of the queue and
\* pendingFrames, the queue's length, describes the queue.

\* the random draws one command may consume: k, the index
\* Math.floor(Math.random() * shapeKeys.length) of spawnPiece, and idx, the
\* eight indices Math.floor(Math.random() * chars.length) of
\* generateTreasureCode
Draw(k, i) == [k |-> k, idx |-> [n \in 1..8 |-> i]]

\* requestAnimationFrame(update), its result assigned to gameLoop
requestFrame(s) ==
  [s EXCEPT !.pendingFrames = s.pendingFrames + 1, !.gameLoop = "pending"]

\* the locals of the functions an event handler calls, before it runs
beginCommand(s) ==
  [s EXCEPT !.linesCleared = -1, !.dropDistance = 0, !.lockedGrid = <<>>,
            !.randomCalls = 0]

gameOver(s) ==
  [s EXCEPT !.gameStarted = FALSE,
            !.pendingFrames = IF s.gameLoop = "pending" THEN s.pendingFrames - 1
                              ELSE s.pendingFrames,
            !.gameLoop = "null"]

\* spawnPiece without the - 1: the piece starts at column GRID_WIDTH / 2
spawnPieceCentre(s, rnd) ==
  LET randomShape == shapeKeys[rnd.k + 1]
      piece == [shape |-> SHAPES[randomShape], color |-> COLORS[randomShape],
                x |-> GRID_WIDTH \div 2, y |-> 0]
      s1 == [s EXCEPT !.currentPiece = piece, !.randomCalls = s.randomCalls + 1]
  IN  IF checkCollision(s1.grid, piece.x, piece.y, piece.shape) THEN gameOver(s1)
      ELSE s1

spawnPiece(s, rnd) ==
  LET randomShape == shapeKeys[rnd.k + 1]
      piece == [shape |-> SHAPES[randomShape], color |-> COLORS[randomShape],
                x |-> (GRID_WIDTH \div 2) - 1, y |-> 0]
      s1 == [s EXCEPT !.currentPiece = piece, !.randomCalls = s.randomCalls + 1]
  IN  IF checkCollision(s1.grid, piece.x, piece.y, piece.shape) THEN gameOver(s1)
      ELSE s1

generateTreasureCode(rnd) == [i \in 1..8 |-> chars[rnd.idx[i] + 1]]

unlockTreasure(s, rnd) ==
  [s EXCEPT !.treasureUnlocked = TRUE, !.treasureCode = generateTreasureCode(rnd),
            !.randomCalls = s.randomCalls + 8]

\* a points table without its last entry: four lines read undefined
basePointsShort(n) == IF n <= 3 THEN <<0, 100, 300, 500>>[n + 1] ELSE NaN

\* a points table that grows by 100 a line
basePointsLinear(n) == IF n <= 4 THEN n * 100 ELSE NaN

\* [0, 100, 300, 500, 800][linesCleared]
basePoints(n) == IF n <= 4 THEN <<0, 100, 300, 500, 800>>[n + 1] ELSE NaN

\* Math.floor(score / 1000) + 1
levelOf(score) == IF score = NaN THEN NaN ELSE (score \div 1000) + 1

\* the drop interval without its floor
dropIntervalNoFloor(level) == IF level = NaN THEN NaN ELSE 1000 - (level - 1) * 100

\* Math.max(100, 1000 - (level - 1) * 100)
dropIntervalOf(level) == IF level = NaN THEN NaN ELSE Max(100, 1000 - (level - 1) * 100)

\* the scoring of clearLines with the level left as it was
scoreLinesKeepLevel(s, rnd) ==
  IF s.linesCleared > 0
    THEN LET points == Mul(basePoints(s.linesCleared), s.level)
             s1 == [s EXCEPT !.score = Add(s.score, points),
                             !.energy = Add(s.energy, points)]
         IN  IF s1.energy # NaN /\ s1.energy >= ENERGY_THRESHOLD /\ ~s1.treasureUnlocked
               THEN unlockTreasure(s1, rnd)
               ELSE s1
    ELSE s

\* the scoring of clearLines without the !treasureUnlocked test: every clear
\* at or over the threshold unlocks again
scoreLinesUnlockAgain(s, rnd) ==
  IF s.linesCleared > 0
    THEN LET points == Mul(basePoints(s.linesCleared), s.level)
             score == Add(s.score, points)
             level == levelOf(score)
             s1 == [s EXCEPT !.score = score,
                             !.energy = Add(s.energy, points),
                             !.level = level,
                             !.dropInterval = dropIntervalOf(level)]
         IN  IF s1.energy # NaN /\ s1.energy >= ENERGY_THRESHOLD
               THEN unlockTreasure(s1, rnd)
               ELSE s1
    ELSE s

\* clearLines after its loop: the scoring of the lines cleared
scoreLines(s, rnd) ==
  IF s.linesCleared > 0
    THEN LET points == Mul(basePoints(s.linesCleared), s.level)
             score == Add(s.score, points)
             level == levelOf(score)
             s1 == [s EXCEPT !.score = score,
                             !.energy = Add(s.energy, points),
                             !.level = level,
                             !.dropInterval = dropIntervalOf(level)]
         IN  IF s1.energy # NaN /\ s1.energy >= ENERGY_THRESHOLD /\ ~s1.treasureUnlocked
               THEN unlockTreasure(s1, rnd)
               ELSE s1
    ELSE s

clearLines(s, rnd) ==
  LET r == clearFrom(s.grid, GRID_HEIGHT - 1, 0)
  IN  scoreLines([s EXCEPT !.grid = r.grid, !.linesCleared = r.linesCleared], rnd)

lockPiece(s, rnd) ==
  IF s.currentPiece = NoPiece THEN s
  ELSE LET g == writePiece(s.grid, s.currentPiece)
           s1 == [s EXCEPT !.grid = g, !.lockedGrid = g]
       IN  spawnPiece(clearLines(s1, rnd), rnd)

\* movePiece without the dy > 0 test: every blocked move locks the piece
movePieceLockAlways(s, dx, dy, rnd) ==
  IF s.currentPiece = NoPiece THEN [s |-> s, ret |-> FALSE]
  ELSE LET newX == s.currentPiece.x + dx
           newY == s.currentPiece.y + dy
       IN  IF ~checkCollision(s.grid, newX, newY, s.currentPiece.shape)
             THEN [s |-> [s EXCEPT !.currentPiece.x = newX,
                                   !.currentPiece.y = newY,
                                   !.score = IF dy > 0 THEN Add(s.score, 1) ELSE s.score,
                                   !.energy = IF dy > 0 THEN Add(s.energy, 1) ELSE s.energy],
                   ret |-> TRUE]
             ELSE [s |-> lockPiece(s, rnd), ret |-> FALSE]

\* movePiece: the state it leaves and the value it returns (undefined, which
\* every caller reads as false, is FALSE here)
movePiece(s, dx, dy, rnd) ==
  IF s.currentPiece = NoPiece THEN [s |-> s, ret |-> FALSE]
  ELSE LET newX == s.currentPiece.x + dx
           newY == s.currentPiece.y + dy
       IN  IF ~checkCollision(s.grid, newX, newY, s.currentPiece.shape)
             THEN [s |-> [s EXCEPT !.currentPiece.x = newX,
                                   !.currentPiece.y = newY,
                                   !.score = IF dy > 0 THEN Add(s.score, 1) ELSE s.score,
                                   !.energy = IF dy > 0 THEN Add(s.energy, 1) ELSE s.energy],
                   ret |-> TRUE]
             ELSE [s |-> IF dy > 0 THEN lockPiece(s, rnd) ELSE s, ret |-> FALSE]

rotatePiece(s) ==
  IF s.currentPiece = NoPiece THEN s
  ELSE LET r == rotated(s.currentPiece.shape)
       IN  IF ~checkCollision(s.grid, s.currentPiece.x, s.currentPiece.y, r)
             THEN [s EXCEPT !.currentPiece.shape = r]
             ELSE s

\* hardDrop's loop: while (movePiece(0, 1)) dropDistance++
RECURSIVE dropLoop(_, _)
dropLoop(s, rnd) ==
  LET r == movePiece(s, 0, 1, rnd)
  IN  IF r.ret THEN dropLoop([r.s EXCEPT !.dropDistance = r.s.dropDistance + 1], rnd)
      ELSE r.s

\* hardDrop with its bonus added to score alone
hardDropScoreOnly(s, rnd) ==
  IF s.currentPiece = NoPiece THEN s
  ELSE LET s1 == dropLoop(s, rnd)
       IN  [s1 EXCEPT !.score = Add(s1.score, s1.dropDistance * 2)]

hardDrop(s, rnd) ==
  IF s.currentPiece = NoPiece THEN s
  ELSE LET s1 == dropLoop(s, rnd)
       IN  [s1 EXCEPT !.score = Add(s1.score, s1.dropDistance * 2),
                      !.energy = Add(s1.energy, s1.dropDistance * 2)]

resetGame(s) ==
  [s EXCEPT !.grid = resetGrid, !.score = 0, !.level = 1, !.energy = 0,
            !.treasureUnlocked = FALSE, !.dropInterval = 1000,
            !.currentPiece = NoPiece]

startGame(s, rnd) ==
  LET s1 == IF s.gameStarted /\ ~s.isPaused THEN resetGame(s) ELSE s
      s2 == [s1 EXCEPT !.gameStarted = TRUE, !.isPaused = FALSE]
      s3 == IF s2.currentPiece = NoPiece THEN spawnPiece(s2, rnd) ELSE s2
  IN  IF s3.gameLoop = "null" THEN requestFrame(s3) ELSE s3

togglePause(s) ==
  IF ~s.gameStarted THEN s
  ELSE LET s1 == [s EXCEPT !.isPaused = ~s.isPaused]
       IN  IF ~s1.isPaused
             THEN requestFrame([s1 EXCEPT !.lastDropTime = DateOrigin + s.clock])
             ELSE s1

\* update(timestamp), the frame callback, once it has left the queue
update(s, timestamp, rnd) ==
  IF ~s.gameStarted \/ s.isPaused THEN s
  ELSE LET elapsed == timestamp - s.lastDropTime
           s1 == IF s.dropInterval # NaN /\ elapsed > s.dropInterval
                   THEN [movePiece(s, 0, 1, rnd).s EXCEPT !.lastDropTime = timestamp]
                   ELSE s
       IN  requestFrame(s1)

\* the browser takes the oldest frame request off the queue and runs it at
\* time `timestamp`
runFrame(s, timestamp, rnd) ==
  LET s1 == [s EXCEPT !.pendingFrames = s.pendingFrames - 1,
                      !.gameLoop = IF s.pendingFrames = 1 /\ s.gameLoop = "pending"
                                     THEN "fired" ELSE s.gameLoop,
                      !.clock = timestamp]
  IN  update(s1, timestamp, rnd)

\* the keydown listener
keydown(s, key, rnd) ==
  IF ~s.gameStarted \/ s.isPaused THEN s
  ELSE CASE key = "ArrowLeft" -> movePiece(s, -1, 0, rnd).s
         [] key = "ArrowRight" -> movePiece(s, 1, 0, rnd).s
         [] key = "ArrowDown" -> movePiece(s, 0, 1, rnd).s
         [] key = "ArrowUp" -> rotatePiece(s)
         [] key = " " -> hardDrop(s, rnd)
         [] OTHER -> s

\* the touchend listener, for a touch that moved by (deltaX, deltaY) in
\* deltaTime milliseconds
touchend(s, deltaX, deltaY, deltaTime, rnd) ==
  IF ~s.gameStarted \/ s.isPaused THEN s
  ELSE IF /\ Abs(deltaX) < TOUCH_SWIPE_THRESHOLD
          /\ Abs(deltaY) < TOUCH_SWIPE_THRESHOLD
          /\ deltaTime < TOUCH_TIME_THRESHOLD
    THEN rotatePiece(s)
  ELSE IF Abs(deltaX) > Abs(deltaY)
    THEN IF Abs(deltaX) > TOUCH_SWIPE_THRESHOLD
           THEN movePiece(s, IF deltaX > 0 THEN 1 ELSE -1, 0, rnd).s
           ELSE s
  ELSE IF Abs(deltaY) > TOUCH_SWIPE_THRESHOLD /\ deltaY > 0
    THEN movePiece(s, 0, 1, rnd).s
  ELSE s

\* the state after init(): the page is loaded, nothing started
pageLoaded ==
  [grid |-> resetGrid, currentPiece |-> NoPiece, gameLoop |-> "null",
   score |-> 0, level |-> 1, energy |-> 0, isPaused |-> FALSE,
   gameStarted |-> FALSE, dropInterval |-> 1000, lastDropTime |-> 0,
   treasureUnlocked |-> FALSE, treasureCode |-> <<>>, pendingFrames |-> 0,
   clock |-> 0, linesCleared |-> -1, dropDistance |-> 0, lockedGrid |-> <<>>,
   randomCalls |-> 0]

\* the click listeners of setupButtonControls
click(s, id, rnd) ==
  CASE id = "startBtn" -> startGame(s, rnd)
    [] id = "pauseBtn" -> togglePause(s)
    [] id = "leftBtn" -> movePiece(s, -1, 0, rnd).s
    [] id = "rightBtn" -> movePiece(s, 1, 0, rnd).s
    [] id = "rotateBtn" -> rotatePiece(s)
    [] id = "downBtn" -> hardDrop(s, rnd)
    [] OTHER -> s

\* ------------------------------------------------------------- variables

VARIABLES grid, currentPiece, gameLoop, score, level, energy, isPaused,
          gameStarted, dropInterval, lastDropTime, treasureUnlocked,
          treasureCode, pendingFrames, clock, linesCleared, dropDistance,
          lockedGrid, steps, probe

vars ==
  <<grid, currentPiece, gameLoop, score, level, energy, isPaused,
    gameStarted, dropInterval, lastDropTime, treasureUnlocked,
    treasureCode, pendingFrames, clock, linesCleared, dropDistance,
    lockedGrid, steps, probe>>

\* the current state as a record
St ==
  [grid |-> grid, currentPiece |-> currentPiece, gameLoop |-> gameLoop,
   score |-> score, level |-> level, energy |-> energy, isPaused |-> isPaused,
   gameStarted |-> gameStarted, dropInterval |-> dropInterval,
   lastDropTime |-> lastDropTime, treasureUnlocked |-> treasureUnlocked,
   treasureCode |-> treasureCode, pendingFrames |-> pendingFrames,
   clock |-> clock, linesCleared |-> linesCleared,
   dropDistance |-> dropDistance, lockedGrid |-> lockedGrid, randomCalls |-> 0]

\* the state an event handler starts from
Cmd == beginCommand(St)

\* the variables hold the record s
Holds(s) ==
  /\ grid = s.grid
  /\ currentPiece = s.currentPiece
  /\ gameLoop = s.gameLoop
  /\ score = s.score
  /\ level = s.level
  /\ energy = s.energy
  /\ isPaused = s.isPaused
  /\ gameStarted = s.gameStarted
  /\ dropInterval = s.dropInterval
  /\ lastDropTime = s.lastDropTime
  /\ treasureUnlocked = s.treasureUnlocked
  /\ treasureCode = s.treasureCode
  /\ pendingFrames = s.pendingFrames
  /\ clock = s.clock
  /\ linesCleared = s.linesCleared
  /\ dropDistance = s.dropDistance
  /\ lockedGrid = s.lockedGrid

\* no collision probed: see Probe
NoProbe == [x |-> 0, y |-> 0, shape |-> <<>>, result |-> FALSE]

\* an event handler has run and left the record s; one more command counted
Commit(s) ==
  /\ steps' = steps + 1
  /\ grid' = s.grid
  /\ currentPiece' = s.currentPiece
  /\ gameLoop' = s.gameLoop
  /\ score' = s.score
  /\ level' = s.level
  /\ energy' = s.energy
  /\ isPaused' = s.isPaused
  /\ gameStarted' = s.gameStarted
  /\ dropInterval' = s.dropInterval
  /\ lastDropTime' = s.lastDropTime
  /\ treasureUnlocked' = s.treasureUnlocked
  /\ treasureCode' = s.treasureCode
  /\ pendingFrames' = s.pendingFrames
  /\ clock' = s.clock
  /\ linesCleared' = s.linesCleared
  /\ dropDistance' = s.dropDistance
  /\ lockedGrid' = s.lockedGrid

Becomes(s) == Commit(s) /\ UNCHANGED probe

\* ------------------------------------------------------------------ inputs

\* the random draws explored: every shape, and the first and the last
\* character of the alphabet for the treasure code
Draws == {Draw(k, i) : k \in 0..(Len(shapeKeys) - 1), i \in {0, Len(chars) - 1}}

NoDraw == Draw(0, 0)

\* the draws that tell apart the outcomes of a command which, run with
\* NoDraw, leaves the record r: none when it called Math.random() not at
\* all, the shapes when it called it once (spawnPiece), all otherwise
DrawsUsed(r) ==
  IF r.randomCalls = 0 THEN {NoDraw}
  ELSE IF r.randomCalls = 1 THEN {Draw(k, 0) : k \in 0..(Len(shapeKeys) - 1)}
  ELSE Draws

Keys == {"ArrowLeft", "ArrowRight", "ArrowDown", "ArrowUp", " "}

Buttons == {"startBtn", "pauseBtn", "leftBtn", "rightBtn", "rotateBtn", "downBtn"}

\* a swipe's length, past the threshold
Swipe == TOUCH_SWIPE_THRESHOLD + 10

\* the touches explored, as <<deltaX, deltaY, deltaTime>>: a tap, a long
\* press, a swipe each way, a diagonal swipe and one short of the threshold
Touches ==
  {<<0, 0, TOUCH_TIME_THRESHOLD - 200>>, <<0, 0, TOUCH_TIME_THRESHOLD + 100>>,
   <<Swipe, 0, 100>>, <<-Swipe, 0, 100>>, <<0, Swipe, 100>>, <<0, -Swipe, 100>>,
   <<Swipe, Swipe, 100>>, <<TOUCH_SWIPE_THRESHOLD, 0, TOUCH_TIME_THRESHOLD>>}

\* ----------------------------------------------------------------- actions

\* a key is pressed
KeyDown ==
  /\ steps < MaxCmds
  /\ \E key \in Keys, s \in {Cmd} :
       \E rnd \in DrawsUsed(keydown(s, key, NoDraw)) :
         \E t \in {keydown(s, key, rnd)} : Becomes(t)

\* a touch on the canvas ends
TouchEnd ==
  /\ steps < MaxCmds
  /\ \E d \in Touches, s \in {Cmd} :
       \E rnd \in DrawsUsed(touchend(s, d[1], d[2], d[3], NoDraw)) :
         \E t \in {touchend(s, d[1], d[2], d[3], rnd)} : Becomes(t)

\* a button is clicked
Click(id) ==
  /\ steps < MaxCmds
  /\ \E s \in {Cmd} :
       \E rnd \in DrawsUsed(click(s, id, NoDraw)) :
         \E t \in {click(s, id, rnd)} : Becomes(t)

StartClick == Click("startBtn")

PauseClick == Click("pauseBtn")

LeftClick == Click("leftBtn")

RightClick == Click("rightBtn")

RotateClick == Click("rotateBtn")

DownClick == Click("downBtn")

\* the browser runs the oldest pending frame callback, one to MaxFrameGaps
\* frame gaps after the last one
Frame ==
  /\ steps < MaxCmds
  /\ pendingFrames > 0
  /\ \E n \in 1..MaxFrameGaps, s \in {Cmd} :
       \E rnd \in DrawsUsed(runFrame(s, clock + n * FrameGap, NoDraw)) :
         \E t \in {runFrame(s, clock + n * FrameGap, rnd)} : Becomes(t)

\* ----------------------------------------------------------------- scripts

\* An initial state is the state the page is in after a script of events,
\* replayed from pageLoaded through the handlers above.

KeyEv(key, k) == [ev |-> "key", a |-> key, rnd |-> Draw(k, 0)]

ClickEv(id, k) == [ev |-> "click", a |-> id, rnd |-> Draw(k, 0)]

Rep(e, n) == [i \in 1..n |-> e]

handle(s, e) ==
  IF e.ev = "key" THEN keydown(beginCommand(s), e.a, e.rnd)
  ELSE click(beginCommand(s), e.a, e.rnd)

\* the events script[lo], ..., script[hi] handled in order from state s (the
\* range is halved at each level, which keeps the evaluation shallow)
RECURSIVE replay(_, _, _, _)
replay(s, script, lo, hi) ==
  IF lo > hi THEN s
  ELSE IF lo = hi THEN handle(s, script[lo])
  ELSE LET mid == (lo + hi) \div 2
           t == replay(s, script, lo, mid)
       IN  IF t = s THEN replay(s, script, mid + 1, hi)
           ELSE replay(t, script, mid + 1, hi)

After(script) == replay(pageLoaded, script, 1, Len(script))

\* indices of the shapes in shapeKeys
kI == 0
kO == 1
kT == 2
kS == 3
kZ == 4
kJ == 5
kL == 6

\* the start button, the first piece being shapeKeys[k + 1]
Start(k) == <<ClickEv("startBtn", k)>>

\* the fresh piece rotated rot times, moved to column c and soft-dropped
\* soft rows
Approach(rot, c, soft) ==
  Rep(KeyEv("ArrowUp", 0), rot)
    \o Rep(KeyEv(IF c < 4 THEN "ArrowLeft" ELSE "ArrowRight", 0), Abs(c - 4))
    \o Rep(KeyEv("ArrowDown", 0), soft)

\* the same, then hard-dropped; the next piece is shapeKeys[next + 1]
Place(rot, c, soft, next) == Approach(rot, c, soft) \o <<KeyEv(" ", next)>>

RECURSIVE Cat(_)
Cat(ss) == IF ss = <<>> THEN <<>> ELSE Head(ss) \o Cat(Tail(ss))

\* nine upright I pieces in columns 0..8: a tenth in column 9 clears four
\* lines
NineUpright == Cat([c \in 1..9 |-> Place(1, c - 1, 0, kI)])

\* ten upright I pieces: four lines cleared, the board empty again
TetrisRound(next) == NineUpright \o Place(1, 9, 0, next)

\* four O pieces in columns 0..7, each soft-dropped soft rows first
FourO(soft, next) ==
  Place(0, 0, soft, kO) \o Place(0, 2, soft, kO) \o Place(0, 4, soft, kO)
    \o Place(0, 6, soft, next)

\* five O pieces: two lines cleared, the board empty again
ORound(next) == FourO(0, kO) \o Place(0, 8, 0, next)

\* the page as loaded
ScriptLoaded == <<>>

\* a fresh game: the first piece has fallen three rows
ScriptFresh == Start(kT) \o Approach(0, 4, 3)

\* one command before a one-line clear: row 19 holds two I pieces, an O
\* rests in columns 8..9
ScriptOneLine ==
  Start(kI) \o Place(0, 0, 0, kI) \o Place(0, 4, 0, kO) \o Approach(0, 8, 18)

\* one command before a two-line clear
ScriptTwoLines == Start(kO) \o FourO(0, kO) \o Approach(0, 8, 0)

\* one command before a three-line clear: rows 17..19 hold columns 0..8,
\* row 16 only column 8
ScriptThreeLines ==
  Start(kI)
    \o Place(0, 0, 0, kI) \o Place(0, 0, 0, kI) \o Place(0, 0, 0, kI)
    \o Place(0, 4, 0, kI) \o Place(0, 4, 0, kI) \o Place(0, 4, 0, kI)
    \o Place(1, 8, 0, kI) \o Approach(1, 9, 16)

\* one command before a four-line clear
ScriptFourLines == Start(kI) \o NineUpright \o Approach(1, 9, 0)

\* one command before rows 19 and 17 are cleared with row 18, which has a
\* hole in column 3, between them
ScriptSplitLines ==
  Start(kI)
    \o Place(0, 0, 0, kI) \o Place(0, 4, 0, kI) \o Place(0, 4, 0, kL)
    \o Place(0, 0, 0, kI) \o Place(1, 8, 0, kI) \o Place(0, 3, 0, kO)
    \o Place(0, 0, 0, kI) \o Place(1, 7, 0, kI) \o Approach(1, 9, 0)

\* column 4 holds four upright I pieces, rows 4..19; a fifth rests on them
ScriptNearTop ==
  Start(kI)
    \o Place(1, 4, 0, kI) \o Place(1, 4, 0, kI) \o Place(1, 4, 0, kI)
    \o Place(1, 4, 0, kI) \o Approach(1, 4, 0)

\* the fifth is locked: the next spawn collides
ScriptGameOver == ScriptNearTop \o <<KeyEv(" ", kT)>>

\* a J piece, rotated once, beside an I piece lying in columns 5..8
ScriptBesideI == Start(kI) \o Place(0, 5, 0, kJ) \o Approach(1, 4, 17)

\* energy 3792 at level 4, one command before a four-line clear
ScriptBelowThreshold ==
  Start(kI) \o TetrisRound(kI) \o TetrisRound(kI) \o NineUpright \o Approach(1, 9, 0)

\* energy 5046 without the treasure, gained by dropping pieces since the
\* last clear at 4830; one command before a two-line clear
ScriptPastThreshold ==
  Start(kI) \o TetrisRound(kI) \o TetrisRound(kO) \o ORound(kO)
    \o FourO(0, kO) \o Approach(0, 8, 0)

\* the treasure unlocked at 7040; one command before another clear
ScriptUnlocked ==
  Start(kI) \o TetrisRound(kI) \o TetrisRound(kI) \o TetrisRound(kO)
    \o FourO(0, kO) \o Approach(0, 8, 0)

\* score 7472 at level 8, one command before a four-line clear that lifts
\* the level past 10
ScriptHighLevel ==
  Start(kI) \o TetrisRound(kI) \o TetrisRound(kI) \o TetrisRound(kI)
    \o NineUpright \o Approach(1, 9, 0)

\* score 1352 at level 2, one command before a two-line clear: a hard drop
\* of 18 rows clears at 1970 and ends at 2006
ScriptBonusCrossing ==
  Start(kI) \o TetrisRound(kO) \o FourO(18, kO) \o Approach(0, 8, 0)

\* three layers of four O pieces on a board at level 4, the first layer's
\* pieces soft-dropped soft rows (the last of them last rows), and a
\* thirteenth O piece in columns 8..9, soft-dropped final rows
ThreeLayers(soft, last, final) ==
  Start(kI) \o TetrisRound(kO) \o ORound(kO) \o ORound(kO)
    \o Place(0, 0, soft, kO) \o Place(0, 2, soft, kO) \o Place(0, 4, soft, kO)
    \o Place(0, 6, last, kO) \o FourO(0, kO) \o FourO(0, kO)
    \o Approach(0, 8, final)

\* energy 3782 at level 4, one command before a two-line clear: a hard drop
\* of 18 rows clears at exactly 5000
ScriptExactThreshold == ThreeLayers(18, 3, 0)

\* energy 3755 at level 4, the piece three rows down: a hard drop of 15
\* rows clears at 4970 and ends at exactly 5000
ScriptShortOfThreshold == ThreeLayers(18, 18, 3)

Scripts ==
  {ScriptLoaded, ScriptFresh, ScriptOneLine, ScriptTwoLines, ScriptThreeLines,
   ScriptFourLines, ScriptSplitLines, ScriptNearTop, ScriptGameOver,
   ScriptBesideI, ScriptBelowThreshold, ScriptPastThreshold, ScriptUnlocked,
   ScriptHighLevel, ScriptBonusCrossing, ScriptExactThreshold,
   ScriptShortOfThreshold}

\* ------------------------------------------------------------ specification

Init == steps = 0 /\ probe = NoProbe /\ \E script \in Scripts : Holds(After(script))

Next ==
  \/ KeyDown
  \/ TouchEnd
  \/ StartClick
  \/ PauseClick
  \/ LeftClick
  \/ RightClick
  \/ RotateClick
  \/ DownClick
  \/ Frame

Spec == Init /\ [][Next]_vars

\* ------------------------------------------------- the collision query

\* every matrix a piece can hold: the seven shapes and their rotations
ShapeMatrices ==
  UNION {{SHAPES[k], rotated(SHAPES[k]), rotated(rotated(SHAPES[k])),
          rotated(rotated(rotated(SHAPES[k])))} : k \in DOMAIN SHAPES}

\* checkCollision is asked about the matrix `shape` at (x, y), on and around
\* the board; the query changes nothing, so one query per behaviour covers
\* every query
Probe ==
  /\ probe = NoProbe
  /\ \E x \in (-ProbeMargin)..(GRID_WIDTH + ProbeMargin - 1),
        y \in (-ProbeMargin)..(GRID_HEIGHT + ProbeMargin - 1),
        shape \in ShapeMatrices :
       probe' = [x |-> x, y |-> y, shape |-> shape,
                 result |-> checkCollision(grid, x, y, shape)]
  /\ UNCHANGED <<grid, currentPiece, gameLoop, score, level, energy, isPaused,
                 gameStarted, dropInterval, lastDropTime, treasureUnlocked,
                 treasureCode, pendingFrames, clock, linesCleared, dropDistance,
                 lockedGrid, steps>>

\* the boards probed: the boards of the scripts that leave a stack
InitCollision ==
  /\ steps = 0
  /\ probe = NoProbe
  /\ \E script \in {ScriptFresh, ScriptThreeLines, ScriptSplitLines, ScriptGameOver,
                    ScriptBesideI, ScriptExactThreshold} : Holds(After(script))

SpecCollision == InitCollision /\ [][Probe]_vars

\* ------------------------------------------------- rotate, four times

\* what a run of rotate() calls has done so far: the shape before the first
\* call, the number of calls and the number of them that were accepted
RotateRun(shape, calls, accepted) ==
  [shape |-> shape, calls |-> calls, accepted |-> accepted]

\* rotatePiece is called (the rotate button calls it in every state), up to
\* four times in a row
Rotate ==
  /\ currentPiece # NoPiece
  /\ IF probe = NoProbe THEN TRUE ELSE probe.calls < 4
  /\ \E s \in {Cmd} :
       \E t \in {click(s, "rotateBtn", NoDraw)} :
         LET run == IF probe = NoProbe THEN RotateRun(currentPiece.shape, 0, 0) ELSE probe
             ok == ~checkCollision(grid, currentPiece.x, currentPiece.y,
                                   rotated(currentPiece.shape))
         IN  /\ Commit(t)
             /\ probe' = RotateRun(run.shape, run.calls + 1,
                                   run.accepted + (IF ok THEN 1 ELSE 0))

\* the states rotated: those of the scripts, and a piece of every shape in
\* every orientation on the empty board, in the open, at a wall and just
\* above the floor
InitRotate ==
  /\ steps = 0
  /\ probe = NoProbe
  /\ \/ \E script \in Scripts : Holds(After(script))
     \/ \E k \in 0..(Len(shapeKeys) - 1), rot \in 0..3, c \in {0, 4, 9}, soft \in {0, 17} :
          Holds(After(Start(k) \o Approach(rot, c, soft)))

SpecRotate == InitRotate /\ [][Rotate]_vars

\* --------------------------------------------------------- the soft drop

\* the down arrow is pressed
SoftDrop ==
  /\ steps < MaxDrops
  /\ \E s \in {Cmd} :
       \E rnd \in DrawsUsed(keydown(s, "ArrowDown", NoDraw)) :
         \E t \in {keydown(s, "ArrowDown", rnd)} : Becomes(t)

\* a game just started on the empty board, the first piece of any shape
InitDrop ==
  /\ steps = 0
  /\ probe = NoProbe
  /\ \E k \in 0..(Len(shapeKeys) - 1) : Holds(After(Start(k)))

SpecDrop == InitDrop /\ [][SoftDrop]_vars

\* ------------------------------------------------- the events, observed

\* The same events as in Spec; each step also notes in probe the engine call
\* its listener made, the value movePiece returned and the draws used.

\* the call a listener made: fn is "movePiece" (with dx, dy), "rotatePiece",
\* "hardDrop", "startGame", "togglePause" or "none"
Call(fn, dx, dy) == [fn |-> fn, dx |-> dx, dy |-> dy]

NoCall == Call("none", 0, 0)

\* the call of the keydown listener
keydownCall(s, key) ==
  IF ~s.gameStarted \/ s.isPaused THEN NoCall
  ELSE CASE key = "ArrowLeft" -> Call("movePiece", -1, 0)
         [] key = "ArrowRight" -> Call("movePiece", 1, 0)
         [] key = "ArrowDown" -> Call("movePiece", 0, 1)
         [] key = "ArrowUp" -> Call("rotatePiece", 0, 0)
         [] key = " " -> Call("hardDrop", 0, 0)
         [] OTHER -> NoCall

\* the call of the touchend listener
touchendCall(s, deltaX, deltaY, deltaTime) ==
  IF ~s.gameStarted \/ s.isPaused THEN NoCall
  ELSE IF /\ Abs(deltaX) < TOUCH_SWIPE_THRESHOLD
          /\ Abs(deltaY) < TOUCH_SWIPE_THRESHOLD
          /\ deltaTime < TOUCH_TIME_THRESHOLD
    THEN Call("rotatePiece", 0, 0)
  ELSE IF Abs(deltaX) > Abs(deltaY)
    THEN IF Abs(deltaX) > TOUCH_SWIPE_THRESHOLD
           THEN Call("movePiece", IF deltaX > 0 THEN 1 ELSE -1, 0)
           ELSE NoCall
  ELSE IF Abs(deltaY) > TOUCH_SWIPE_THRESHOLD /\ deltaY > 0
    THEN Call("movePiece", 0, 1)
  ELSE NoCall

\* the call of a button's click listener
clickCall(id) ==
  CASE id = "startBtn" -> Call("startGame", 0, 0)
    [] id = "pauseBtn" -> Call("togglePause", 0, 0)
    [] id = "leftBtn" -> Call("movePiece", -1, 0)
    [] id = "rightBtn" -> Call("movePiece", 1, 0)
    [] id = "rotateBtn" -> Call("rotatePiece", 0, 0)
    [] id = "downBtn" -> Call("hardDrop", 0, 0)
    [] OTHER -> NoCall

\* the call of update(timestamp)
updateCall(s, timestamp) ==
  IF ~s.gameStarted \/ s.isPaused THEN NoCall
  ELSE IF s.dropInterval # NaN /\ timestamp - s.lastDropTime > s.dropInterval
    THEN Call("movePiece", 0, 1)
  ELSE NoCall

\* the note of a step: the call made from state s with the draws rnd, and
\* what movePiece returned if the call was movePiece
Seen(s, call, rnd) ==
  [call |-> call, rnd |-> rnd, n |-> steps + 1,
   ret |-> IF call.fn = "movePiece" THEN movePiece(s, call.dx, call.dy, rnd).ret
           ELSE FALSE]

KeyDownSeen ==
  /\ steps < MaxCmds
  /\ \E key \in Keys, s \in {Cmd} :
       \E rnd \in DrawsUsed(keydown(s, key, NoDraw)) :
         \E t \in {keydown(s, key, rnd)} :
           Commit(t) /\ probe' = Seen(s, keydownCall(s, key), rnd)

TouchEndSeen ==
  /\ steps < MaxCmds
  /\ \E d \in Touches, s \in {Cmd} :
       \E rnd \in DrawsUsed(touchend(s, d[1], d[2], d[3], NoDraw)) :
         \E t \in {touchend(s, d[1], d[2], d[3], rnd)} :
           Commit(t) /\ probe' = Seen(s, touchendCall(s, d[1], d[2], d[3]), rnd)

ClickSeen ==
  /\ steps < MaxCmds
  /\ \E id \in Buttons, s \in {Cmd} :
       \E rnd \in DrawsUsed(click(s, id, NoDraw)) :
         \E t \in {click(s, id, rnd)} :
           Commit(t) /\ probe' = Seen(s, clickCall(id), rnd)

FrameSeen ==
  /\ steps < MaxCmds
  /\ pendingFrames > 0
  /\ \E n \in 1..MaxFrameGaps, s \in {Cmd} :
       \E rnd \in DrawsUsed(runFrame(s, clock + n * FrameGap, NoDraw)) :
         \E t \in {runFrame(s, clock + n * FrameGap, rnd)} :
           /\ Commit(t)
           /\ probe' = Seen([s EXCEPT !.clock = clock + n * FrameGap,
                                      !.pendingFrames = s.pendingFrames - 1],
                            updateCall(s, clock + n * FrameGap), rnd)

SpecEvents ==
  Init /\ [][KeyDownSeen \/ TouchEndSeen \/ ClickSeen \/ FrameSeen]_vars

\* ------------------------------------------------------- the frame loop

\* the number of steps of a behaviour of SpecLive
MaxTicks == 5

\* a running game, paused and resumed before the next frame
ScriptResumed ==
  ScriptFresh \o <<ClickEv("pauseBtn", 0), ClickEv("pauseBtn", 0)>>

\* the browser runs the oldest pending frame callback: time advances by one
\* to MaxFrameGaps frame gaps
Tick ==
  /\ steps < MaxTicks
  /\ pendingFrames > 0
  /\ \E n \in 1..MaxFrameGaps, s \in {Cmd} :
       \E rnd \in DrawsUsed(runFrame(s, clock + n * FrameGap, NoDraw)) :
         \E t \in {runFrame(s, clock + n * FrameGap, rnd)} : Becomes(t)

\* the pause button is clicked
PauseToggle ==
  /\ steps < MaxTicks
  /\ \E s \in {Cmd} : \E t \in {click(s, "pauseBtn", NoDraw)} : Becomes(t)

InitLive ==
  /\ steps = 0
  /\ probe = NoProbe
  /\ \E script \in Scripts \cup {ScriptResumed} : Holds(After(script))

\* a frame callback is pending and time advances by a frame gap, whatever the
\* callback does: an action enabled exactly when Tick is
FramePasses ==
  /\ steps < MaxTicks
  /\ pendingFrames > 0
  /\ steps' = steps + 1
  /\ clock' = clock + FrameGap
  /\ UNCHANGED <<grid, currentPiece, gameLoop, score, level, energy, isPaused,
                 gameStarted, dropInterval, lastDropTime, treasureUnlocked,
                 treasureCode, pendingFrames, linesCleared, dropDistance,
                 lockedGrid, probe>>

\* Tick, with its enabling condition spelt out first: the steps of
\* SpecLive that satisfy TickFair are the steps of Tick (no step of SpecLive
\* advances the clock and leaves pendingFrames), and TickFair is enabled
\* exactly when Tick is
TickFair == FramePasses \/ Tick

\* the browser runs every animation frame callback that stays requested
SpecLive == InitLive /\ [][Tick \/ PauseToggle]_vars /\ WF_vars(TickFair)

\* ------------------------------------------------------------------ claims

\* the session is over: a spawn has collided, and the start button has not
\* been clicked since
IsGameOver == ~gameStarted /\ currentPiece # NoPiece

\* the step is resetGame's: the running game is started again
IsReset ==
  /\ gameStarted /\ ~isPaused
  /\ grid' = resetGrid /\ score' = 0 /\ energy' = 0 /\ level' = 1
  /\ dropInterval' = 1000 /\ ~treasureUnlocked' /\ linesCleared' = -1

\* C1: once the game is over, no event changes the board, the active piece,
\* score or energy, unless it is a reset.  The buttons' listeners (leftBtn,
\* rightBtn, rotateBtn, downBtn) violate it: they do not look at gameStarted.
C1_GameOverIsTerminal ==
  [][IsGameOver =>
       \/ IsReset
       \/ /\ grid' = grid
          /\ currentPiece' = currentPiece
          /\ score' = score
          /\ energy' = energy]_vars

\* the occupied cells of a matrix, as <<row, col>> from 0
OccupiedCells(shape) ==
  {rc \in (0..(Len(shape) - 1)) \X (0..(Len(shape[1]) - 1)) : shape[rc[1] + 1][rc[2] + 1] # 0}

\* C2: checkCollision(x, y, shape) is true iff some occupied cell of the
\* shape at (x, y) has its column outside [0, GRID_WIDTH), or its row at or
\* past GRID_HEIGHT, or lies at a row >= 0 on a non-empty board cell; cells
\* at negative rows are not compared with the board.
C2_CollisionIff ==
  probe # NoProbe =>
    (probe.result <=>
       \E rc \in OccupiedCells(probe.shape) :
         LET row == probe.y + rc[1]
             col == probe.x + rc[2]
         IN  \/ col < 0
             \/ col >= GRID_WIDTH
             \/ row >= GRID_HEIGHT
             \/ /\ row >= 0 /\ row < GRID_HEIGHT
                /\ col >= 0 /\ col < GRID_WIDTH
                /\ grid[row + 1][col + 1] # EmptyCell)

\* C2 witness: a probe inside the walls and above the floor, its top row
\* above the board, that collides with board content
C2_Witness ==
  /\ probe # NoProbe
  /\ probe.result
  /\ probe.y < 0
  /\ \A rc \in OccupiedCells(probe.shape) :
       /\ probe.x + rc[2] >= 0 /\ probe.x + rc[2] < GRID_WIDTH
       /\ probe.y + rc[1] < GRID_HEIGHT

\* C3: the board always has GRID_HEIGHT rows of GRID_WIDTH cells, each empty
\* or one of the seven colour tags.
C3_BoardShape ==
  /\ Len(grid) = GRID_HEIGHT
  /\ \A r \in 1..Len(grid) :
       /\ Len(grid[r]) = GRID_WIDTH
       /\ \A c \in 1..Len(grid[r]) : grid[r][c] \in {EmptyCell} \cup ColorTags

\* C3 witness: a command has locked a piece and cleared lines
C3_Witness == steps > 0 /\ linesCleared >= 1 /\ grid # resetGrid

\* C4: on every step that is not a reset, score, energy and level do not
\* decrease, and dropInterval does not increase and stays at least 100; so
\* score and energy go back to 0, level to 1 and dropInterval to 1000 only
\* through a reset.
C4_Monotone ==
  [][\/ IsReset
     \/ /\ score' >= score
        /\ energy' >= energy
        /\ level' >= level
        /\ dropInterval' <= dropInterval
        /\ dropInterval' >= 100]_vars

\* C4 witness: a clear has raised the level so far that the floor of
\* dropInterval is what holds it at 100
C4_Witness == steps > 0 /\ linesCleared >= 1 /\ level > 10 /\ dropInterval = 100

C5_NotFull(line) == ~rowFull(line)

\* C5: after a lock, the board is k empty rows followed by the non-full rows
\* of the board the lock had written, in their order, where k is the number
\* of full rows of that board; linesCleared is k and no row is full.
C5_ClearLines ==
  linesCleared >= 0 =>
    LET kept == SelectSeq(lockedGrid, C5_NotFull)
        k == Len(lockedGrid) - Len(kept)
    IN  /\ grid = [r \in 1..k |-> emptyRow] \o kept
        /\ linesCleared = k
        /\ \A r \in 1..Len(grid) : ~rowFull(grid[r])

\* C5 witness: a lock made two adjacent rows full, under a row that stays,
\* and both were cleared
C5_Witness ==
  /\ steps > 0
  /\ linesCleared >= 2
  /\ \E r \in 1..(GRID_HEIGHT - 2) :
       /\ ~rowFull(lockedGrid[r]) /\ lockedGrid[r] # emptyRow
       /\ rowFull(lockedGrid[r + 1]) /\ rowFull(lockedGrid[r + 2])

\* the points of the claim's table, 1:100, 2:300, 3:500, 4:800
C6_Points(n) == CASE n = 1 -> 100 [] n = 2 -> 300 [] n = 3 -> 500 [] n = 4 -> 800

\* C6: a command that locks the piece and clears n >= 1 lines adds
\* basePoints[n] times the level in force before it to score and to energy
\* (on top of the 1 a successful step down and the 2 a hard-dropped row
\* earn); a lock that clears no line adds nothing and changes neither level
\* nor dropInterval.
C6_Scoring ==
  [][linesCleared' >= 0 =>
       LET points == IF linesCleared' >= 1 THEN C6_Points(linesCleared') * level ELSE 0
       IN  /\ linesCleared' <= 4
           /\ score' = score + 3 * dropDistance' + points
           /\ energy' = energy + 3 * dropDistance' + points
           /\ linesCleared' = 0 => level' = level /\ dropInterval' = dropInterval]_vars

\* C6 witness: four lines cleared at a level above 1
C6_Witness == steps > 0 /\ linesCleared = 4 /\ level >= 14

\* C7 as stated: after a command that cleared at least one line, level is
\* floor(score / 1000) + 1 for the score the command leaves, and dropInterval
\* is max(100, 1000 - (level - 1) * 100).  hardDrop violates it: it adds
\* dropDistance * 2 to score after clearLines has computed the level.
C7_LevelFromFinalScore ==
  linesCleared >= 1 =>
    /\ level = (score \div 1000) + 1
    /\ dropInterval = Max(100, 1000 - (level - 1) * 100)

\* C7 amended: after a command that cleared at least one line, level is
\* floor(s / 1000) + 1 for the score s held when clearLines ran, which is the
\* score the command leaves less the dropDistance * 2 that hardDrop adds
\* afterwards, and dropInterval is max(100, 1000 - (level - 1) * 100).
C7_LevelFromScoreAtClear ==
  linesCleared >= 1 =>
    /\ level = ((score - 2 * dropDistance) \div 1000) + 1
    /\ dropInterval = Max(100, 1000 - (level - 1) * 100)

\* C7 witness: a hard drop cleared lines, and its bonus took the score over
\* a multiple of 1000 that the score had not reached when the lines cleared
C7_Witness ==
  /\ steps > 0
  /\ linesCleared >= 1
  /\ dropDistance > 0
  /\ level > 1
  /\ (score \div 1000) > ((score - 2 * dropDistance) \div 1000)

\* C8: on every step that is not a reset, treasureUnlocked is true afterwards
\* exactly when it was true before or the step cleared at least one line
\* with energy, once the clear's points were added, at ENERGY_THRESHOLD or
\* more (the dropDistance * 2 of a hard drop comes after the clear and does
\* not count); once unlocked, the code shown does not change.
C8_UnlockOnce ==
  [][\/ IsReset
     \/ /\ treasureUnlocked' <=>
             \/ treasureUnlocked
             \/ linesCleared' >= 1 /\ energy' - 2 * dropDistance' >= ENERGY_THRESHOLD
        /\ treasureUnlocked => treasureCode' = treasureCode
        /\ ~treasureUnlocked /\ treasureUnlocked' =>
             /\ Len(treasureCode') = 8
             /\ \A i \in 1..8 : \E c \in 1..Len(chars) : treasureCode'[i] = chars[c]]_vars

\* C8 witness: unlocked, with a code drawn in a command of the exploration,
\* after energy had already passed the threshold by movement alone
C8_Witness ==
  /\ steps > 0
  /\ treasureUnlocked
  /\ treasureCode = [i \in 1..8 |-> "9"]
  /\ energy - 2 * dropDistance >= ENERGY_THRESHOLD

\* C9 as stated: after four rotate() calls in a row the piece's matrix is
\* the one it had before the first.  It fails where some of the four
\* rotations collide and others do not: the rejected ones are no-ops, so
\* fewer than four quarter turns are made.
C9_FourRotations ==
  (probe # NoProbe /\ probe.calls = 4) => currentPiece.shape = probe.shape

\* C9 amended: after four rotate() calls in a row of which every one was
\* accepted, or none was, the piece's matrix is, cell for cell and dimension
\* for dimension, the one it had before the first call.
C9_FourAcceptedRotations ==
  (probe # NoProbe /\ probe.calls = 4 /\ probe.accepted \in {0, 4}) =>
    /\ currentPiece.shape = probe.shape
    /\ Len(currentPiece.shape) = Len(probe.shape)
    /\ Len(currentPiece.shape[1]) = Len(probe.shape[1])

\* C9 witness: four accepted rotations of a piece whose four orientations
\* all differ
C9_Witness ==
  /\ probe # NoProbe
  /\ probe.calls = 4
  /\ probe.accepted = 4
  /\ rotated(rotated(probe.shape)) # probe.shape

\* the empty board with the shape `key` written in its colour, its top-left
\* corner at column 4, its last row on row 19
C10_Placed(key) ==
  LET shape == SHAPES[key]
      h == Len(shape)
  IN  [r \in 1..GRID_HEIGHT |->
         [c \in 1..GRID_WIDTH |->
            LET row == (r - 1) - (GRID_HEIGHT - h)
                col == (c - 1) - 4
            IN  IF /\ row >= 0 /\ row < h /\ col >= 0 /\ col < Len(shape[1])
                   /\ shape[row + 1][col + 1] # 0
                  THEN COLORS[key] ELSE EmptyCell]]

\* C10: on the empty board, a fresh piece of shape `key` and height h that
\* gets only move(0, 1) commands: the first 20 - h succeed, each moving it
\* one row down and adding 1 to score and to energy; the next one fails,
\* locks it in its colour on rows 20 - h..19 at columns 4 + col, clears no
\* line, adds nothing to the score and leaves a new piece at (4, 0).
C10_SoftDropToFloor ==
  \E k \in 0..(Len(shapeKeys) - 1) :
    LET key == shapeKeys[k + 1]
        h == Len(SHAPES[key])
    IN  /\ steps <= GRID_HEIGHT - h =>
             /\ grid = resetGrid
             /\ currentPiece = [shape |-> SHAPES[key], color |-> COLORS[key],
                                x |-> 4, y |-> steps]
             /\ score = steps
             /\ energy = steps
             /\ linesCleared = -1
        /\ steps = GRID_HEIGHT - h + 1 =>
             /\ grid = C10_Placed(key)
             /\ lockedGrid = C10_Placed(key)
             /\ linesCleared = 0
             /\ score = GRID_HEIGHT - h
             /\ energy = GRID_HEIGHT - h
             /\ currentPiece.x = 4
             /\ currentPiece.y = 0
             /\ \E n \in DOMAIN SHAPES :
                  currentPiece.shape = SHAPES[n] /\ currentPiece.color = COLORS[n]
             /\ gameStarted
        /\ steps > GRID_HEIGHT - h + 1 =>
             \A r \in (GRID_HEIGHT - h + 1)..GRID_HEIGHT, c \in 1..GRID_WIDTH :
               C10_Placed(key)[r][c] # EmptyCell => grid[r][c] = COLORS[key]

\* C10 witness: the I piece, of height 1, has just been locked on row 19 by
\* the 20th move(0, 1)
C10_Witness ==
  /\ steps = GRID_HEIGHT
  /\ linesCleared = 0
  /\ grid = C10_Placed("I")
  /\ score = GRID_HEIGHT - 1
  /\ currentPiece.y = 0

\* what resetGame and the spawn after it leave: the empty board, the
\* progression zeroed, the treasure locked and a fresh piece at its spawn
\* position
C13_FreshSession ==
  /\ grid = resetGrid
  /\ score = 0 /\ energy = 0 /\ level = 1 /\ dropInterval = 1000
  /\ ~treasureUnlocked
  /\ currentPiece # NoPiece
  /\ currentPiece.x = (GRID_WIDTH \div 2) - 1
  /\ currentPiece.y = 0
  /\ \E n \in DOMAIN SHAPES :
       currentPiece.shape = SHAPES[n] /\ currentPiece.color = COLORS[n]

\* C13: a step that takes the session from game-over to started leaves a
\* fresh session: the board empty, score and energy 0, level 1, dropInterval
\* 1000, the treasure locked and a freshly spawned piece.  startGame violates
\* it: it calls resetGame only when gameStarted is still true, and gameOver
\* has set it to false, so the start button resumes on the board that ended
\* the game, with the piece that collided.
C13_RestartResets ==
  [][(IsGameOver /\ gameStarted') => C13_FreshSession']_vars

\* C15: after every command the lines cleared by its lock, if it locked, are
\* at most 4, so that the points table was read inside its bounds and score
\* and energy are numbers, not negative; and no row of the board is full.
C15_AtMostFourLines ==
  /\ linesCleared <= 4
  /\ score # NaN /\ score >= 0
  /\ energy # NaN /\ energy >= 0
  /\ \A r \in 1..Len(grid) : ~rowFull(grid[r])

\* C15 witness: a lock has cleared four lines, the most an upright I can fill
C15_Witness == steps > 0 /\ linesCleared = 4 /\ score >= 800

\* C17: energy equals score in every reachable state.
C17_EnergyIsScore == energy = score

\* C17 witness: a hard drop has earned the points of its steps, its bonus
\* and the points of a clear
C17_Witness ==
  /\ steps > 0
  /\ dropDistance > 0
  /\ linesCleared >= 1
  /\ score > 0

\* C18 as stated: while the session is started there is an active piece and
\* each of its occupied cells is inside the board, on an empty cell.  It
\* fails after the start button is clicked in the game-over state (C13): the
\* session is started again with the piece that collided at its spawn.
C18_PieceOnFreeCells ==
  gameStarted =>
    /\ currentPiece # NoPiece
    /\ \A rc \in OccupiedCells(currentPiece.shape) :
         LET row == currentPiece.y + rc[1]
             col == currentPiece.x + rc[2]
         IN  /\ col >= 0 /\ col < GRID_WIDTH
             /\ row >= 0 /\ row < GRID_HEIGHT
             /\ grid[row + 1][col + 1] = EmptyCell

\* C19 as stated: while the session is paused no step changes the board, the
\* active piece, score, energy or level, nor ends the session.  The buttons'
\* listeners (leftBtn, rightBtn, rotateBtn, downBtn) violate it: they do not
\* look at isPaused.
C19_PausedIsFrozen ==
  [][(gameStarted /\ isPaused) =>
       /\ grid' = grid
       /\ currentPiece' = currentPiece
       /\ score' = score
       /\ energy' = energy
       /\ level' = level
       /\ gameStarted']_vars

\* C20 as stated: at most one update callback is pending.  togglePause
\* violates it: pausing leaves the pending callback in the queue, and
\* resuming before it has run requests another.
C20_OneFramePending == pendingFrames <= 1

\* C16 as stated: in clearLines the re-examination of an index after a
\* removal never finds a full row, and the loop without it would leave the
\* same board.  It fails whenever a lock fills two adjacent rows: the rows
\* are scanned from the bottom, so the row shifted into the index is the
\* full row that was above.
C16_RecheckNeverFull ==
  linesCleared >= 0 =>
    /\ ~recheckFrom(lockedGrid, GRID_HEIGHT - 1, FALSE)
    /\ clearFromSkip(lockedGrid, GRID_HEIGHT - 1, 0).grid = grid

\* two rows of the board g, one right above the other, are full
C16_AdjacentFull(g) ==
  \E r \in 1..(Len(g) - 1) : rowFull(g[r]) /\ rowFull(g[r + 1])

\* C16 amended: the re-examination finds a full row exactly when the lock
\* filled two adjacent rows, and exactly then the loop without it would
\* leave another board (one with a full row on it).
C16_RecheckWhenAdjacent ==
  linesCleared >= 0 =>
    LET again == recheckFrom(lockedGrid, GRID_HEIGHT - 1, FALSE)
        skipped == clearFromSkip(lockedGrid, GRID_HEIGHT - 1, 0).grid
    IN  /\ again <=> C16_AdjacentFull(lockedGrid)
        /\ again <=> skipped # grid
        /\ again => \E r \in 1..Len(skipped) : rowFull(skipped[r])

\* C16 witness: a lock filled two adjacent rows and both were cleared
C16_Witness ==
  /\ steps > 0
  /\ linesCleared = 2
  /\ C16_AdjacentFull(lockedGrid)
  /\ recheckFrom(lockedGrid, GRID_HEIGHT - 1, FALSE)

\* the state has changed in none of what a move can change
C12_NoEffect ==
  /\ grid' = grid
  /\ currentPiece' = currentPiece
  /\ score' = score
  /\ energy' = energy
  /\ level' = level
  /\ dropInterval' = dropInterval
  /\ treasureUnlocked' = treasureUnlocked
  /\ linesCleared' = -1

\* C12: a movePiece(dx, 0) whose target position collides returns false and
\* changes neither board, piece, score, energy, level nor dropInterval; and a
\* step locks the piece only if it called movePiece(0, 1), itself or through
\* hardDrop, at a position whose row below collides.
C12_BlockedHorizontalMove ==
  [][probe' # probe =>
       LET call == probe'.call
       IN  /\ ( /\ call.fn = "movePiece" /\ call.dy = 0
                /\ currentPiece # NoPiece
                /\ checkCollision(grid, currentPiece.x + call.dx, currentPiece.y,
                                  currentPiece.shape) )
               => ~probe'.ret /\ C12_NoEffect
           /\ linesCleared' >= 0 =>
                /\ currentPiece # NoPiece
                /\ \/ call.fn = "movePiece" /\ call.dy > 0 /\ call.dx = 0
                   \/ call.fn = "hardDrop"
                /\ checkCollision(grid, currentPiece.x,
                                  currentPiece.y + dropDistance' + 1, currentPiece.shape)]_vars

\* C12 witness: a move to the side was blocked by the stack, not by a wall
C12_Witness ==
  /\ probe # NoProbe
  /\ probe.call.fn = "movePiece"
  /\ probe.call.dy = 0
  /\ ~probe.ret
  /\ currentPiece # NoPiece
  /\ currentPiece.x + probe.call.dx >= 0
  /\ currentPiece.x + probe.call.dx + Len(currentPiece.shape[1]) <= GRID_WIDTH
  /\ checkCollision(grid, currentPiece.x + probe.call.dx, currentPiece.y, currentPiece.shape)

\* move(0, 1) issued from state s until it fails
RECURSIVE C11_MoveUntilFail(_, _)
C11_MoveUntilFail(s, rnd) ==
  LET r == movePiece(s, 0, 1, rnd)
  IN  IF r.ret THEN C11_MoveUntilFail(r.s, rnd) ELSE r.s

\* the step had the effect the claim gives a hard drop of a piece that ends
\* on row yy: the board and the piece are those that move(0, 1) until failure
\* leaves, the piece was written at row yy, and score and energy have grown
\* by 3 for each row fallen and by the points of the lines cleared
C11_DroppedTo(yy) ==
  LET soft == C11_MoveUntilFail(Cmd, probe'.rnd)
      points == IF linesCleared' >= 1 THEN C6_Points(linesCleared') * level ELSE 0
  IN  /\ grid' = soft.grid
      /\ currentPiece' = soft.currentPiece
      /\ lockedGrid' = writePiece(grid, [currentPiece EXCEPT !.y = yy])
      /\ score' = score + 3 * (yy - currentPiece.y) + points
      /\ energy' = energy + 3 * (yy - currentPiece.y) + points

\* C11 as stated: a hardDrop in a running session with an active piece at row
\* y locks the piece at the greatest row yy such that no row from y to yy
\* collides, with the effect of move(0, 1) until failure and 3 * (yy - y)
\* plus the points of the lines cleared added to score and energy.  It fails
\* in the session that the start button resumes after game-over (C13): the
\* piece collides at row y itself, and is locked where it is.
C11_HardDropIsSoftDrops ==
  [][( /\ probe' # probe
       /\ probe'.call.fn = "hardDrop"
       /\ gameStarted /\ ~isPaused
       /\ currentPiece # NoPiece ) =>
       \E yy \in currentPiece.y..(GRID_HEIGHT - 1) :
         /\ \A r \in currentPiece.y..yy :
              ~checkCollision(grid, currentPiece.x, r, currentPiece.shape)
         /\ checkCollision(grid, currentPiece.x, yy + 1, currentPiece.shape)
         /\ C11_DroppedTo(yy)]_vars

====
